---- MODULE Spec2Model ----
(***************************************************************************)
(* Pymodoro (main.py): the phase/session state machine of PomodoroTimer    *)
(* (start_session, run_phase) writing to the DataStore session log;        *)
(* DataStore.write and read_all with the Stats queries over them; Presets; *)
(* and the click handling of Menu.                                         *)
(*                                                                         *)
(* Time is the wall clock in whole seconds since the running phase's       *)
(* `start` (run_phase only ever uses int((now - start).total_seconds())).  *)
(* One pass of run_phase's while loop, with the test of the loop condition *)
(* that follows it, is one step; the clock crosses at most one second      *)
(* boundary between two passes (the loop polls at 60 Hz), and a pass       *)
(* handles at most one input event.  The Music button / M key and window   *)
(* resizing change no variable of this model and are left out.             *)
(***************************************************************************)
EXTENDS Integers, Sequences, FiniteSets, TLC

VARIABLES
    pc,         \* position of the control flow of start_session
    args,       \* the arguments of start_session
    count,      \* PomodoroTimer.count
    active,     \* PomodoroTimer.active
    phase,      \* run_phase: phase
    duration,   \* run_phase: duration (minutes)
    elapsed,    \* run_phase: int((datetime.now() - start).total_seconds())
    remaining,  \* run_phase: remaining
    running,    \* run_phase: running
    paused,     \* run_phase: paused
    skipped,    \* run_phase: skipped
    auto_t,     \* run_phase: auto_t ("None", or the seconds since it was set)
    result,     \* the tuple run_phase returned: remaining, skipped, exit_flag
    log,        \* the lines DataStore.write appended for this run
    hist,       \* history: the phases that ended, in order, and how each ended
    pausedSecs, \* history: seconds of this phase that elapsed while paused
    remAtPause, \* history: remaining at the last pause of this phase
    resumed,    \* history: the last loop pass handled a resume
    file,       \* DataStore: the log file at self.path (exists, lines)
    rows,       \* DataStore.read_all: the list returned
    raised,     \* DataStore.read_all: the exception that escaped, or "none"
    written,    \* history: the dicts given to DataStore.write, in order
    today,      \* datetime.now().date() at the time of a Stats query
    answer,     \* the value a Stats query returned
    progress,   \* _draw: progress, a fraction num/den, or the error raised
    audio,      \* Audio._music_enabled, and the state of pygame.mixer.music
    config_music, \* config['music_enabled'] (in run_phase: music_live)
    sfx,        \* history: the names Audio.play_sfx was called with, in order
    presets,    \* Presets.data: a dict from names to settings
    presets_file, \* the dict in the file at Presets.path
    added,      \* history: the arguments of the calls of Presets.add, in order
    view,       \* Menu.view
    btns,       \* Menu.btns: a dict from actions to rectangles
    tbns,       \* Menu.tbns: a dict from task ids to rectangles
    pbns,       \* Menu.pbns: a dict from preset names to rectangles
    tasks,      \* Tasks.tasks: the 'completed' of each task, by task id
    did,        \* history: what the last click acted on (btn, task, preset)
    clickedIn   \* history: the view drawn when the last click was handled

vars == <<pc, args, count, active, phase, duration, elapsed, remaining,
          running, paused, skipped, auto_t, result, log, hist, pausedSecs,
          remAtPause, resumed, file, rows, raised, written, today, answer,
          progress, audio, config_music, sfx, presets, presets_file, added,
          view, btns, tbns, pbns, tasks, did, clickedIn>>

\* The variables of a run of the timer, but for pc.
runVars == <<args, count, active, phase, duration, elapsed, remaining,
             running, paused, skipped, auto_t, result, log, hist,
             pausedSecs, remAtPause, resumed>>

storeVars == <<file, rows, raised, written, today, answer>>

drawVars == <<progress>>

audioVars == <<audio, config_music, sfx>>

presetVars == <<presets, presets_file, added>>

menuVars == <<view, btns, tbns, pbns, tasks, did, clickedIn>>

\* The variables a run of the timer leaves alone.
offTimerVars == <<storeVars, drawVars, presetVars, menuVars>>

\* The variables the DataStore and Stats leave alone, but for pc.
offStoreVars == <<runVars, drawVars, audioVars, presetVars, menuVars>>

(***************************************************************************)
(* Bounds of the model.                                                    *)
(***************************************************************************)
MaxSessions == 3    \* sessions_per_cycle ranges over 1..MaxSessions
MaxPhases == 4      \* phases started in one run
MaxPause == 2       \* seconds one phase may spend paused
MaxLines == 3       \* lines of a log file given to read_all
MaxWrites == 2      \* records written to a log file that is read back
MaxMinutes == 2     \* minutes of a phase drawn or run on its own
MaxAdds == 3        \* calls of Presets.add
MaxTasks == 1       \* tasks added in the menu

(***************************************************************************)
(* Program constants.                                                      *)
(***************************************************************************)
SecPerMin == 60
SecPerHour == 3600
WinW == 480
WinH == 760
AutoGrace == 3

WORK == "work"
SHORT_BREAK == "short_break"
LONG_BREAK == "long_break"

Phase == {WORK, SHORT_BREAK, LONG_BREAK}

Max_Second(a, b) == b
Max(a, b) == IF a >= b THEN a ELSE b

\* The (work_time, break_time, long_break) minutes a run is started with.
Durations == { <<1, 1, 2>>, <<0, 1, 0>> }

\* The input events run_phase reacts to: Pause button / SPACE, Skip button /
\* S, Stop button / ESC, and the window's QUIT.
Events == {"pause", "skip", "stop", "quit"}

\* start_session's (remaining, skipped, exit_flag) while no returned tuple is
\* waiting to be tested: the tuple is dead once the code after the call has
\* read it.
NoResult == [remaining |-> 0, skipped |-> FALSE, exit_flag |-> FALSE]

(***************************************************************************)
(* DataStore.write and the records start_session writes.                   *)
(***************************************************************************)
\* DataStore.write(data): one line appended to the log.
write(store, data) == Append(store, data)

\* The dict start_session builds for a phase of `dur` minutes that was not
\* skipped: its duration and type fields.
SessionRecord(dur, ph) ==
    [duration |-> dur * SecPerMin,
     type     |-> IF ph = WORK THEN "work" ELSE "break"]

(***************************************************************************)
(* Audio, on a = [music_enabled, mixer]: the class attribute and the state *)
(* of pygame.mixer.music ("stopped", "playing" or "paused").  The music    *)
(* file is taken to exist and the mixer to work.                           *)
(***************************************************************************)
\* Audio.start_music(): load and play, play again, or unpause.
start_music(a) ==
    IF ~a.music_enabled THEN a ELSE [a EXCEPT !.mixer = "playing"]

\* Audio.pause_music().
pause_music(a) ==
    [a EXCEPT !.mixer = IF @ = "playing" THEN "paused" ELSE @]

stop_music_PlaysOn(a) == a

\* Audio.stop_music() and Audio._stop_music().
stop_music(a) == [a EXCEPT !.mixer = "stopped"]

\* Audio.set_music(enabled).
set_music(a, enabled) ==
    IF enabled THEN [a EXCEPT !.music_enabled = TRUE]
    ELSE stop_music([a EXCEPT !.music_enabled = FALSE])

\* Audio.play_sfx(name): the call, whatever it makes heard.
play_sfx(calls, name) == Append(calls, name)

(***************************************************************************)
(* Construction.                                                           *)
(***************************************************************************)
\* No timer has run: PomodoroTimer.__init__, and no call of run_phase yet.
TimerIdle ==
    /\ args = [work_time |-> 0, break_time |-> 0, long_break |-> 0,
               sessions_per_cycle |-> 1, auto_continue |-> FALSE]
    /\ count = 0
    /\ active = TRUE
    /\ phase = WORK
    /\ duration = 0
    /\ elapsed = 0
    /\ remaining = 0
    /\ running = FALSE
    /\ paused = FALSE
    /\ skipped = FALSE
    /\ auto_t = "None"
    /\ result = NoResult
    /\ log = <<>>
    /\ hist = <<>>
    /\ pausedSecs = 0
    /\ remAtPause = 0
    /\ resumed = FALSE

\* No log file, and no call of the DataStore or of Stats yet.
StoreIdle ==
    /\ file = [exists |-> FALSE, lines |-> <<>>]
    /\ rows = <<>>
    /\ raised = "none"
    /\ written = <<>>
    /\ today = 0
    /\ answer = [hours |-> [num |-> 0, den |-> 1], count |-> 0]

\* Nothing drawn yet.
DrawIdle == progress = [raises |-> "none", num |-> 0, den |-> 1]

\* The class attributes of Audio, nothing played, and the configured
\* music_enabled.
AudioIdle(enabled) ==
    /\ audio = [music_enabled |-> TRUE, mixer |-> "stopped"]
    /\ config_music = enabled
    /\ sfx = <<>>

\* The empty dict {}.
EmptyDict == [name \in {} |-> name]

\* No presets file, and Presets.__init__ having loaded {}.
PresetIdle ==
    /\ presets = EmptyDict
    /\ presets_file = EmptyDict
    /\ added = <<>>

\* Menu.__init__, and no task in the tasks file.
MenuIdle ==
    /\ view = "main"
    /\ btns = EmptyDict
    /\ tbns = EmptyDict
    /\ pbns = EmptyDict
    /\ tasks = <<>>
    /\ did = [btn |-> {}, task |-> {}, preset |-> {}]
    /\ clickedIn = "main"

Init ==
    /\ pc = "idle"
    /\ TimerIdle
    /\ StoreIdle
    /\ DrawIdle
    /\ AudioIdle(TRUE)
    /\ PresetIdle
    /\ MenuIdle

(***************************************************************************)
(* run_phase.                                                              *)
(***************************************************************************)
\* run_phase returns res after `secs` seconds of which `psecs` were spent
\* paused: its locals cease to exist; the two durations stay on record for
\* the phase that returned until start_session moves on.
Return(res, how, secs, psecs) ==
    /\ pc' = "returned"
    /\ result' = res
    /\ hist' = Append(hist, [phase |-> phase, count |-> count, how |-> how])
    /\ elapsed' = secs
    /\ pausedSecs' = psecs
    /\ remaining' = 0
    /\ running' = FALSE
    /\ paused' = FALSE
    /\ skipped' = FALSE
    /\ auto_t' = "None"
    /\ remAtPause' = 0
    /\ resumed' = FALSE

\* How a run_phase that returned (remaining, skipped, False) ended: skipped,
\* or by the countdown reaching zero.
HowEnded(rem, skp) ==
    IF skp THEN "skip" ELSE IF rem = 0 THEN "complete" ELSE "auto"

\* The call run_phase(dur, ph, ...): the locals before the while loop and
\* the music started for a Work phase; with dur = 0 the loop's condition
\* fails at once and the call returns, the music of a Work phase stopped.
EnterPhase(dur, ph) ==
    /\ Len(hist) < MaxPhases
    /\ phase' = ph
    /\ duration' = dur
    /\ audio' = IF ph # WORK THEN audio
                ELSE IF dur * SecPerMin > 0 THEN start_music(audio)
                ELSE stop_music(start_music(audio))
    /\ IF dur * SecPerMin > 0
       THEN /\ pc' = "run_phase"
            /\ elapsed' = 0
            /\ remaining' = dur * SecPerMin
            /\ running' = TRUE
            /\ paused' = FALSE
            /\ skipped' = FALSE
            /\ auto_t' = "None"
            /\ pausedSecs' = 0
            /\ remAtPause' = 0
            /\ resumed' = FALSE
            /\ result' = NoResult
            /\ UNCHANGED hist
       ELSE /\ pc' = "returned"
            /\ result' = [remaining |-> 0, skipped |-> FALSE,
                          exit_flag |-> FALSE]
            /\ hist' = Append(hist, [phase |-> ph, count |-> count',
                                     how |-> "complete"])
            /\ elapsed' = 0
            /\ pausedSecs' = 0
            /\ remaining' = 0
            /\ running' = FALSE
            /\ paused' = FALSE
            /\ skipped' = FALSE
            /\ auto_t' = "None"
            /\ remAtPause' = 0
            /\ resumed' = FALSE

\* The event loop of one pass, on the locals st = [paused, skipped, running,
\* auto_t, music_live, exit] and the audio state st.audio; exit is set by the
\* `return 0, False, True` of QUIT, the Stop button and ESC.
HandleEvent(st, e) ==
    IF e = "pause"
    THEN [st EXCEPT !.paused = ~st.paused, !.auto_t = "None",
                    !.audio = IF ~st.paused THEN pause_music(@)
                              ELSE IF phase = WORK THEN start_music(@)
                              ELSE @]
    ELSE IF e = "skip" THEN [st EXCEPT !.skipped = TRUE, !.running = FALSE]
    ELSE IF e = "music"
    THEN [st EXCEPT !.music_live = ~st.music_live,
                    !.audio = IF ~st.music_live /\ phase = WORK /\ ~st.paused
                              THEN start_music(set_music(@, ~st.music_live))
                              ELSE set_music(@, ~st.music_live)]
    ELSE [st EXCEPT !.exit = TRUE, !.audio = stop_music(@)]

\* One pass of `while remaining > 0 and running` that handles no event (ev =
\* "none") or the event ev, the clock having advanced by dt seconds since
\* the pass before; then the loop's condition is tested again, and run_phase
\* returns when it fails.
LoopPass(ev, dt) ==
    /\ pc = "run_phase"
    /\ remaining > 0 /\ running
    /\ paused /\ dt > 0 => pausedSecs + dt <= MaxPause
    /\ LET now == elapsed + dt
           psecs == IF paused THEN pausedSecs + dt ELSE pausedSecs
           st0 == [paused |-> paused, skipped |-> skipped,
                   running |-> running, auto_t |-> auto_t, exit |-> FALSE,
                   music_live |-> config_music, audio |-> audio]
           st  == IF ev = "none" THEN st0 ELSE HandleEvent(st0, ev)
           rem == IF st.paused THEN remaining
                  ELSE Max(0, duration * SecPerMin - now)
           run == IF ~st.paused /\ rem = 0 THEN FALSE ELSE st.running
           at  == IF rem = 0 /\ ~st.paused /\ st.auto_t = "None"
                     /\ args.auto_continue
                  THEN "now" ELSE st.auto_t
           \* auto_t is only ever set in the pass that tests it: its age
           \* (datetime.now() - auto_t) is now - now there.
           brk == at # "None" /\ now - now >= AutoGrace
           \* `if phase == Phase.WORK: Audio.stop_music()` after the loop.
           au  == IF ~st.exit /\ (brk \/ ~(rem > 0 /\ run)) /\ phase = WORK
                  THEN stop_music(st.audio) ELSE st.audio
       IN IF st.exit
          THEN /\ Return([remaining |-> 0, skipped |-> FALSE,
                          exit_flag |-> TRUE], "stop", now, psecs)
               /\ audio' = au
               /\ config_music' = st.music_live
          ELSE IF brk \/ ~(rem > 0 /\ run)
          THEN /\ Return([remaining |-> rem, skipped |-> st.skipped,
                          exit_flag |-> FALSE],
                         HowEnded(rem, st.skipped), now, psecs)
               /\ audio' = au
               /\ config_music' = st.music_live
          ELSE /\ audio' = au
               /\ config_music' = st.music_live
               /\ elapsed' = now
               /\ pausedSecs' = psecs
               /\ remaining' = rem
               /\ running' = run
               /\ paused' = st.paused
               /\ skipped' = st.skipped
               /\ auto_t' = at
               /\ remAtPause' = IF ~paused /\ st.paused THEN remaining
                                ELSE IF paused THEN remAtPause ELSE 0
               /\ resumed' = (paused /\ ~st.paused)
               /\ UNCHANGED <<pc, result, hist>>
    /\ UNCHANGED <<args, count, active, phase, duration, log, sfx>>
    /\ UNCHANGED offTimerVars

(***************************************************************************)
(* start_session.                                                          *)
(***************************************************************************)
\* Menu.launch / Menu._launch_preset: a fresh PomodoroTimer's start_session
\* is called with the configured minutes and cycle length; Audio.configure
\* and the 'start' sound before its loop.  `music` is config['music_enabled']
\* and `a` the audio state at the call.
BeginSession(d, n, ac, music, a) ==
    /\ pc' = "while"
    /\ args' = [work_time |-> d[1], break_time |-> d[2], long_break |-> d[3],
                sessions_per_cycle |-> n, auto_continue |-> ac]
    /\ audio' = [a EXCEPT !.music_enabled = music]
    /\ sfx' = play_sfx(sfx, "start")
    /\ config_music' = music
    /\ UNCHANGED <<count, active, phase, duration, elapsed, remaining,
                   running, paused, skipped, auto_t, result, log, hist,
                   pausedSecs, remAtPause, resumed>>

\* start_session called from the menu as it stands.
StartSession(d, n, ac) ==
    /\ pc = "idle"
    /\ BeginSession(d, n, ac, config_music, audio)
    /\ UNCHANGED offTimerVars

\* The values of a phase that returned are dropped when start_session leaves
\* its result behind.
ForgetPhase ==
    /\ result' = NoResult
    /\ elapsed' = 0
    /\ pausedSecs' = 0

\* `while self.active:` fails, or a `break` left the loop: the lines after
\* the loop, and start_session returns.
SessionEnd ==
    /\ pc = "while"
    /\ ~active
    /\ pc' = "done"
    /\ audio' = stop_music(audio)
    /\ sfx' = play_sfx(sfx, "start")
    /\ UNCHANGED config_music
    /\ UNCHANGED <<args, count, active, phase, duration, elapsed, remaining,
                   running, paused, skipped, auto_t, result, log, hist,
                   pausedSecs, remAtPause, resumed>>
    /\ UNCHANGED offTimerVars

\* The top of the while loop: count += 1, then the long break when
\* count >= sessions_per_cycle, else the first phase of the for loop.
WhileTop ==
    /\ pc = "while"
    /\ active
    /\ count' = count + 1
    /\ IF count' >= args.sessions_per_cycle
       THEN EnterPhase(args.long_break, LONG_BREAK)
       ELSE EnterPhase(args.work_time, WORK)
    /\ UNCHANGED <<args, active, log, config_music, sfx>>
    /\ UNCHANGED offTimerVars

\* AfterLongBreak with the `if not skipped` test of the write left out.
AfterLongBreak_WritesSkipped ==
    /\ pc = "returned"
    /\ phase = LONG_BREAK
    /\ IF result.exit_flag
       THEN /\ pc' = "done"
            /\ audio' = stop_music(audio)
            /\ sfx' = play_sfx(sfx, "start")
            /\ UNCHANGED <<count, log>>
       ELSE /\ log' = write(log, SessionRecord(args.long_break, phase))
            /\ sfx' = IF result.skipped THEN play_sfx(sfx, "notify") ELSE sfx
            /\ count' = 0
            /\ pc' = "while"
            /\ UNCHANGED audio
    /\ UNCHANGED config_music
    /\ ForgetPhase
    /\ UNCHANGED <<args, active, phase, duration, remaining, running, paused,
                   skipped, auto_t, hist, remAtPause, resumed>>
    /\ UNCHANGED offTimerVars

\* After run_phase(long_break, Phase.LONG_BREAK, ...) returned.
AfterLongBreak ==
    /\ pc = "returned"
    /\ phase = LONG_BREAK
    /\ IF result.exit_flag
       THEN /\ pc' = "done"
            /\ audio' = stop_music(audio)
            /\ sfx' = play_sfx(sfx, "start")
            /\ UNCHANGED <<count, log>>
       ELSE /\ log' = IF ~result.skipped
                      THEN write(log, SessionRecord(args.long_break, phase))
                      ELSE log
            /\ sfx' = IF result.skipped THEN play_sfx(sfx, "notify") ELSE sfx
            /\ count' = 0
            /\ pc' = "while"
            /\ UNCHANGED audio
    /\ UNCHANGED config_music
    /\ ForgetPhase
    /\ UNCHANGED <<args, active, phase, duration, remaining, running, paused,
                   skipped, auto_t, hist, remAtPause, resumed>>
    /\ UNCHANGED offTimerVars

\* AfterWork with a skipped Work phase leaving the for loop, so that its
\* short break is not run.
AfterWork_SkipLeavesLoop ==
    /\ pc = "returned"
    /\ phase = WORK
    /\ IF result.exit_flag \/ result.skipped
       THEN /\ active' = ~result.exit_flag
            /\ pc' = "while"
            /\ ForgetPhase
            /\ UNCHANGED <<log, phase, duration, remaining, running, paused,
                           skipped, auto_t, hist, remAtPause, resumed>>
            /\ UNCHANGED <<audio, sfx>>
       ELSE /\ log' = write(log, SessionRecord(args.work_time, phase))
            /\ sfx' = play_sfx(sfx, "complete")
            /\ EnterPhase(args.break_time, SHORT_BREAK)
            /\ UNCHANGED active
    /\ UNCHANGED <<args, count, config_music>>
    /\ UNCHANGED offTimerVars

\* After run_phase(work_time, Phase.WORK, ...) returned: the rest of the
\* for loop's first iteration and the call of its second.
AfterWork ==
    /\ pc = "returned"
    /\ phase = WORK
    /\ IF result.exit_flag
       THEN /\ active' = FALSE
            /\ pc' = "while"
            /\ ForgetPhase
            /\ UNCHANGED <<log, phase, duration, remaining, running, paused,
                           skipped, auto_t, hist, remAtPause, resumed>>
            /\ UNCHANGED <<audio, sfx>>
       ELSE /\ log' = IF ~result.skipped
                      THEN write(log, SessionRecord(args.work_time, phase))
                      ELSE log
            /\ sfx' = play_sfx(sfx, "complete")
            /\ EnterPhase(args.break_time, SHORT_BREAK)
            /\ UNCHANGED active
    /\ UNCHANGED <<args, count, config_music>>
    /\ UNCHANGED offTimerVars

\* AfterShortBreak with `self.active = False` left out of the exit branch.
AfterShortBreak_StaysActive ==
    /\ pc = "returned"
    /\ phase = SHORT_BREAK
    /\ log' = IF ~result.exit_flag /\ ~result.skipped
              THEN write(log, SessionRecord(args.break_time, phase))
              ELSE log
    /\ sfx' = IF ~result.exit_flag /\ result.skipped
              THEN play_sfx(sfx, "notify")
              ELSE sfx
    /\ UNCHANGED <<audio, config_music>>
    /\ pc' = "while"
    /\ ForgetPhase
    /\ UNCHANGED <<args, count, active, phase, duration, remaining, running,
                   paused, skipped, auto_t, hist, remAtPause, resumed>>
    /\ UNCHANGED offTimerVars

\* After run_phase(break_time, Phase.SHORT_BREAK, ...) returned: the rest
\* of the for loop's second iteration.
AfterShortBreak ==
    /\ pc = "returned"
    /\ phase = SHORT_BREAK
    /\ IF result.exit_flag
       THEN /\ active' = FALSE
            /\ UNCHANGED <<log, sfx>>
       ELSE /\ log' = IF ~result.skipped
                      THEN write(log, SessionRecord(args.break_time, phase))
                      ELSE log
            /\ sfx' = IF result.skipped THEN play_sfx(sfx, "notify") ELSE sfx
            /\ UNCHANGED active
    /\ UNCHANGED <<audio, config_music>>
    /\ pc' = "while"
    /\ ForgetPhase
    /\ UNCHANGED <<args, count, phase, duration, remaining, running, paused,
                   skipped, auto_t, hist, remAtPause, resumed>>
    /\ UNCHANGED offTimerVars

(***************************************************************************)
(* DataStore.read_all.  A line of the file is described by what json.loads *)
(* makes of it and, for a JSON object, by its 'start' member:              *)
(*   json  = "invalid" (not JSON: empty, truncated, garbage), "number",    *)
(*           "string", "array" or "object";                                *)
(*   start = "missing", "number" (a member that is no string), "text" (a   *)
(*           string that is not '%Y-%m-%d %H:%M:%S.%f') or "timestamp";    *)
(*   type  = the 'type' member of a well-formed record;                    *)
(*   day, us = the date and the microsecond a 'start' string names (its    *)
(*           digits), "text" naming them without a fractional part;        *)
(*   duration, task = the members of those names.                          *)
(***************************************************************************)
Garbage ==
    [json |-> "invalid", start |-> "missing", type |-> "none",
     day |-> 0, us |-> 0, duration |-> 0, task |-> "None"]

JsonValue(j) == [Garbage EXCEPT !.json = j]

JsonObject(st, ty) ==
    [Garbage EXCEPT !.json = "object", !.start = st, !.type = ty]

\* str(dt) of a datetime: '%Y-%m-%d %H:%M:%S.%f', but without the fractional
\* part when dt.microsecond is 0.
StrDatetime(dt) ==
    [kind |-> IF dt.us = 0 THEN "text" ELSE "timestamp",
     day  |-> dt.day,
     us   |-> dt.us]

\* The dict start_session writes for a phase of `dur` minutes begun at
\* `start`.
SessionDict(start, dur, ph, task) ==
    [start    |-> StrDatetime(start),
     duration |-> SessionRecord(dur, ph).duration,
     type     |-> SessionRecord(dur, ph).type,
     task     |-> task]

\* json.dumps(data) of such a dict: the line DataStore.write appends.
json_dumps(data) ==
    [json |-> "object", start |-> data.start.kind, type |-> data.type,
     day |-> data.start.day, us |-> data.start.us,
     duration |-> data.duration, task |-> data.task]

Lines ==
    {Garbage, JsonValue("number"), JsonValue("string"), JsonValue("array"),
     JsonObject("missing", "work"), JsonObject("number", "work"),
     JsonObject("text", "work"),
     JsonObject("timestamp", "work"), JsonObject("timestamp", "break")}

\* json.loads(line.strip()): the value, or JSONDecodeError.
json_loads(line) ==
    IF line.json = "invalid" THEN [raises |-> "JSONDecodeError"]
    ELSE [raises |-> "none", value |-> line]

\* e['start'] for the value json.loads returned.
GetStart(e) ==
    IF e.json # "object" THEN [raises |-> "TypeError"]
    ELSE IF e.start = "missing" THEN [raises |-> "KeyError"]
    ELSE [raises |-> "none",
          value |-> [kind |-> e.start, day |-> e.day, us |-> e.us]]

\* datetime.strptime(v, '%Y-%m-%d %H:%M:%S.%f').
strptime(v) ==
    IF v.kind = "number" THEN [raises |-> "TypeError"]
    ELSE IF v.kind = "text" THEN [raises |-> "ValueError"]
    ELSE [raises |-> "none", value |-> [day |-> v.day, us |-> v.us]]

\* The body of the try statement for one line: the row to append, or the
\* exception raised.
ParseLine(line) ==
    LET e == json_loads(line)
    IN  IF e.raises # "none" THEN e
        ELSE LET v == GetStart(e.value)
             IN  IF v.raises # "none" THEN v
                 ELSE LET t == strptime(v.value)
                      IN  IF t.raises # "none" THEN t
                          ELSE [raises |-> "none",
                                value |-> [start |-> t.value,
                                           type |-> line.type,
                                           duration |-> line.duration,
                                           task |-> line.task]]

\* except (json.JSONDecodeError, ValueError): JSONDecodeError is a subclass
\* of ValueError.
Caught == {"JSONDecodeError", "ValueError"}

\* The for loop of read_all over lines ls, rows being the list so far: the
\* list returned, or the exception that leaves read_all.
RECURSIVE ReadLines(_, _)
ReadLines(ls, acc) ==
    IF ls = <<>> THEN [rows |-> acc, raised |-> "none"]
    ELSE LET r == ParseLine(Head(ls))
         IN  IF r.raises = "none"
             THEN ReadLines(Tail(ls), Append(acc, r.value))
             ELSE IF r.raises \in Caught
             THEN ReadLines(Tail(ls), acc)
             ELSE [rows |-> <<>>, raised |-> r.raises]

read_all(f) ==
    IF ~f.exists THEN [rows |-> <<>>, raised |-> "none"]
    ELSE ReadLines(f.lines, <<>>)

RECURSIVE SeqsUpTo(_, _)
SeqsUpTo(S, n) ==
    IF n = 0 THEN {<<>>}
    ELSE LET shorter == SeqsUpTo(S, n - 1)
         IN  shorter \cup {Append(q, x) : q \in shorter, x \in S}

\* The log files read_all is given: none, or up to MaxLines lines.
Files ==
    {[exists |-> FALSE, lines |-> <<>>]}
      \cup {[exists |-> TRUE, lines |-> ls] : ls \in SeqsUpTo(Lines, MaxLines)}

InitStore ==
    /\ pc = "store"
    /\ TimerIdle
    /\ file \in Files
    /\ rows = <<>>
    /\ raised = "none"
    /\ written = <<>>
    /\ today = 0
    /\ answer = [hours |-> [num |-> 0, den |-> 1], count |-> 0]
    /\ DrawIdle
    /\ AudioIdle(TRUE)
    /\ PresetIdle
    /\ MenuIdle

\* A caller (Stats) calls store.read_all().
ReadAll ==
    /\ pc = "store"
    /\ pc' = "read"
    /\ rows' = read_all(file).rows
    /\ raised' = read_all(file).raised
    /\ UNCHANGED <<offStoreVars, file, written, today, answer>>

NextStore == ReadAll

SpecStore == InitStore /\ [][NextStore]_vars

(***************************************************************************)
(* The session log written and read back.                                  *)
(***************************************************************************)
\* The instants datetime.now() gives: a date, and the microsecond of the
\* second (0..999999).
Datetimes == [day : {0, 1}, us : {0, 999999}]

Tasks == {"None", "essay"}

InitLog ==
    /\ pc = "store"
    /\ TimerIdle
    /\ StoreIdle
    /\ DrawIdle
    /\ AudioIdle(TRUE)
    /\ PresetIdle
    /\ MenuIdle

\* start_session's store.write({...}) after a phase that was not skipped.
Write(start, dur, ph, task) ==
    /\ pc = "store"
    /\ Len(written) < MaxWrites
    /\ LET data == SessionDict(start, dur, ph, task)
       IN  /\ file' = [exists |-> TRUE,
                      lines  |-> write(file.lines, json_dumps(data))]
           /\ written' = Append(written, data)
    /\ UNCHANGED <<pc, offStoreVars, rows, raised, today, answer>>

\* sum(s['duration'] for s in work).
RECURSIVE SumDuration(_)
SumDuration(work) ==
    IF work = <<>> THEN 0 ELSE Head(work).duration + SumDuration(Tail(work))

\* The value both queries return for the list `work`:
\* sum(...) / 3600, len(work).
HoursAndCount(work) ==
    [hours |-> [num |-> SumDuration(work), den |-> SecPerHour],
     count |-> Len(work)]

\* Stats.get_today(), the current date being t.
GetToday(t) ==
    /\ pc = "store"
    /\ today' = t
    /\ LET r == read_all(file)
           IsWorkToday(row) == row.type = "work" /\ row.start.day = t
       IN  /\ rows' = r.rows
           /\ raised' = r.raised
           /\ IF r.raised = "none"
              THEN /\ answer' = HoursAndCount(SelectSeq(r.rows, IsWorkToday))
                   /\ pc' = "today"
              ELSE /\ pc' = "raised"
                   /\ UNCHANGED answer
    /\ UNCHANGED <<offStoreVars, file, written>>

\* Stats.get_total().
GetTotal ==
    /\ pc = "store"
    /\ LET r == read_all(file)
           IsWork(row) == row.type = "work"
       IN  /\ rows' = r.rows
           /\ raised' = r.raised
           /\ IF r.raised = "none"
              THEN /\ answer' = HoursAndCount(SelectSeq(r.rows, IsWork))
                   /\ pc' = "total"
              ELSE /\ pc' = "raised"
                   /\ UNCHANGED answer
    /\ UNCHANGED <<offStoreVars, file, written, today>>

NextLog ==
    \/ \E start \in Datetimes, dur \in {1, 2}, ph \in {WORK, SHORT_BREAK},
          task \in Tasks : Write(start, dur, ph, task)
    \/ ReadAll
    \/ \E t \in {0, 1} : GetToday(t)
    \/ GetTotal

SpecLog == InitLog /\ [][NextLog]_vars

(***************************************************************************)
(* One phase on its own: the call of run_phase and the drawing of a frame, *)
(* for any duration and any value of the countdown.                        *)
(***************************************************************************)
\* a / b of two integers: the quotient as a fraction, or ZeroDivisionError.
Div(a, b) ==
    IF b = 0 THEN [raises |-> "ZeroDivisionError", num |-> 0, den |-> 1]
    ELSE [raises |-> "none", num |-> a, den |-> b]

\* 1 - q of a quotient q.
OneMinus(q) ==
    IF q.raises # "none" THEN q
    ELSE [raises |-> "none", num |-> q.den - q.num, den |-> q.den]

\* _draw: progress = 1 - (remaining / (duration * 60)) if duration > 0
\* else 0.
Progress(rem, dur) ==
    IF dur > 0 THEN OneMinus(Div(rem, dur * SecPerMin))
    ELSE [raises |-> "none", num |-> 0, den |-> 1]

InitPhase ==
    /\ pc = "phase"
    /\ args = [work_time |-> 0, break_time |-> 0, long_break |-> 0,
               sessions_per_cycle |-> 1, auto_continue |-> FALSE]
    /\ count = 0
    /\ active = TRUE
    /\ phase \in Phase
    /\ duration \in 0..MaxMinutes
    /\ elapsed = 0
    /\ remaining \in 0..(duration * SecPerMin)
    /\ running = FALSE
    /\ paused = FALSE
    /\ skipped = FALSE
    /\ auto_t = "None"
    /\ result = NoResult
    /\ log = <<>>
    /\ hist = <<>>
    /\ pausedSecs = 0
    /\ remAtPause = 0
    /\ resumed = FALSE
    /\ StoreIdle
    /\ DrawIdle
    /\ AudioIdle(TRUE)
    /\ PresetIdle
    /\ MenuIdle

\* self._draw(phase, ac, remaining, duration, ...): the progress of the ring.
Draw ==
    /\ pc = "phase"
    /\ pc' = "drawn"
    /\ progress' = Progress(remaining, duration)
    /\ UNCHANGED <<runVars, storeVars, audioVars, presetVars, menuVars>>

\* self.run_phase(duration, phase, ...), up to its first loop pass or, with
\* no pass to make, its return.
RunPhase ==
    /\ pc = "phase"
    /\ UNCHANGED <<args, count, active, log, config_music, sfx>>
    /\ EnterPhase(duration, phase)
    /\ UNCHANGED offTimerVars

NextPhase == Draw \/ RunPhase

SpecPhase == InitPhase /\ [][NextPhase]_vars

(***************************************************************************)
(* Presets.                                                                *)
(***************************************************************************)
PresetNames == {"deep", "quick"}

\* The settings saved as presets: work, break, long break (minutes) and
\* sessions.
PresetSettings == { <<25, 5, 15, 4>>, <<50, 10, 30, 2>>, <<1, 1, 2, 3>> }

\* Presets.add with the whole dict replaced by the new entry.
add_Alone(data, name, work, brk, long_brk, sessions) ==
    [n \in {name} |->
        [work_time |-> work, break_time |-> brk,
         long_break |-> long_brk, sessions |-> sessions]]

\* self.data[name] = {...} of Presets.add.
add(data, name, work, brk, long_brk, sessions) ==
    [n \in DOMAIN data \cup {name} |->
        IF n = name
        THEN [work_time |-> work, break_time |-> brk,
              long_break |-> long_brk, sessions |-> sessions]
        ELSE data[n]]

\* Presets.add(name, work, brk, long_brk, sessions), its save() included.
Add(name, v) ==
    /\ pc = "idle"
    /\ Len(added) < MaxAdds
    /\ presets' = add(presets, name, v[1], v[2], v[3], v[4])
    /\ presets_file' = presets'
    /\ added' = Append(added, <<name, v>>)
    /\ UNCHANGED <<pc, runVars, storeVars, drawVars, audioVars, menuVars>>

\* A new Presets(): _load reads the file back.
Load ==
    /\ pc = "idle"
    /\ presets' = presets_file
    /\ UNCHANGED <<pc, runVars, storeVars, drawVars, audioVars, menuVars,
                   presets_file, added>>

\* p = self.presets.get(name); if p: self._launch_preset(p), up to the
\* loop of start_session.
LaunchPreset(name) ==
    /\ name \in DOMAIN presets
    /\ LET p == presets[name]
       IN  StartSession(<<p.work_time, p.break_time, p.long_break>>,
                        p.sessions, FALSE)

NextPresets ==
    \/ \E name \in PresetNames, v \in PresetSettings : Add(name, v)
    \/ Load
    \/ \E name \in PresetNames : LaunchPreset(name)

SpecPresets == Init /\ [][NextPresets]_vars

(***************************************************************************)
(* Menu: the views' hit regions and handle_click, in the window setup()    *)
(* opens.  The run of a launched session is the subject of Spec; here it   *)
(* is its start and its return.                                            *)
(***************************************************************************)
Rect(x, y, w, h) == [x |-> x, y |-> y, w |-> w, h |-> h]

\* rect.collidepoint(pos).
collidepoint(r, pos) ==
    /\ r.x <= pos[1] /\ pos[1] < r.x + r.w
    /\ r.y <= pos[2] /\ pos[2] < r.y + r.h

Min(a, b) == IF a <= b THEN a ELSE b

\* The Back button of every view but main.
BackRect == Rect(WinW \div 2 - 80, WinH - 66, 160, 44)

\* draw_main: self.btns, n tasks being listed.
MainBtns(n) ==
    LET nw == (WinW - 48 - 3 * 8) \div 4
        ty == 464 + (IF n > 0 THEN 50 * Min(n, 4) ELSE 36)
    IN  [k \in {"start", "stats", "tasks", "presets", "settings", "add_task"}
         |-> CASE k = "start"    -> Rect(WinW \div 2 - 110, 294, 220, 54)
               [] k = "stats"    -> Rect(24, 368, nw, 40)
               [] k = "tasks"    -> Rect(24 + (nw + 8), 368, nw, 40)
               [] k = "presets"  -> Rect(24 + 2 * (nw + 8), 368, nw, 40)
               [] k = "settings" -> Rect(24 + 3 * (nw + 8), 368, nw, 40)
               [] k = "add_task" -> Rect(24, ty + 6, WinW - 48, 36)]

\* draw_main: self.tbns, the first 4 tasks.
MainTbns(n) ==
    [tid \in 1..Min(n, 4) |-> Rect(24, 464 + 50 * (tid - 1), WinW - 48, 40)]

\* draw_stats: self.btns.
StatsBtns == [k \in {"back"} |-> BackRect]

\* draw_tasks: self.btns.
TasksBtns(n) ==
    [k \in {"add_task", "back"}
     |-> IF k = "add_task"
         THEN Rect(24, 94 + 56 * Min(n, 8) + 8, WinW - 48, 46)
         ELSE BackRect]

\* draw_tasks: self.tbns, the first 8 tasks.
TasksTbns(n) ==
    [tid \in 1..Min(n, 8) |-> Rect(24, 94 + 56 * (tid - 1), WinW - 48, 46)]

\* The order of the presets in the dict: that of the presets file.
PresetOrder == <<"deep", "quick">>

\* The row of preset `name` in the list of the presets view, from 0.
PresetRow(data, name) ==
    LET at(m) == CHOOSE i \in 1..Len(PresetOrder) : PresetOrder[i] = m
    IN  Cardinality({m \in DOMAIN data : at(m) < at(name)})

\* draw_presets: self.btns.
PresetsBtns == [k \in {"back"} |-> BackRect]

\* draw_presets: self.pbns, the first 6 presets.
PresetsPbns(data) ==
    [name \in {m \in DOMAIN data : PresetRow(data, m) < 6}
     |-> Rect(24, 94 + 66 * PresetRow(data, name), WinW - 48, 56)]

\* draw_settings: self.btns.
SettingsBtns ==
    LET right == 24 + (WinW - 48)
    IN  [k \in {"toggle_music", "toggle_sfx", "goal_minus", "goal_plus",
                "back"}
         |-> CASE k = "toggle_music" -> Rect(right - 86, 94 + 16, 70, 30)
               [] k = "toggle_sfx"   -> Rect(right - 86, 94 + 78 + 16, 70, 30)
               [] k = "goal_minus"   -> Rect(right - 114, 94 + 156 + 16, 34, 30)
               [] k = "goal_plus"    -> Rect(right - 42, 94 + 156 + 16, 34, 30)
               [] k = "back"         -> BackRect]

\* views.get(self.view, self.draw_main)(): the three dicts after the view v
\* was drawn; every view replaces btns, and only some of them tbns or pbns.
Drawn(v) ==
    LET n == Len(tasks)
    IN  CASE v = "stats"    -> [btns |-> StatsBtns, tbns |-> tbns, pbns |-> pbns]
          [] v = "tasks"    -> [btns |-> TasksBtns(n), tbns |-> TasksTbns(n),
                                pbns |-> pbns]
          [] v = "presets"  -> [btns |-> PresetsBtns, tbns |-> tbns,
                                pbns |-> PresetsPbns(presets)]
          [] v = "settings" -> [btns |-> SettingsBtns, tbns |-> tbns,
                                pbns |-> pbns]
          [] OTHER          -> [btns |-> MainBtns(n), tbns |-> MainTbns(n),
                                pbns |-> pbns]

\* The keys of dict reg whose rectangle holds pos.
Hit(reg, pos) == {k \in DOMAIN reg : collidepoint(reg[k], pos)}

\* The places clicked: the buttons of the views, the first rows of their
\* lists, and the music toggle of the settings.
Spots ==
    { <<240, 320>>, <<75, 388>>, <<185, 388>>, <<295, 388>>, <<405, 388>>,
      <<100, 100>>, <<100, 120>>, <<100, 170>>, <<100, 480>>, <<100, 525>>,
      <<400, 125>>, <<240, 716>> }

\* The presets files the menu is started with.
MenuPresets ==
    { EmptyDict,
      add(EmptyDict, "deep", 50, 10, 30, 2),
      add(add(EmptyDict, "deep", 50, 10, 30, 2), "quick", 1, 1, 2, 3) }

InitMenu ==
    /\ pc = "idle"
    /\ TimerIdle
    /\ StoreIdle
    /\ DrawIdle
    /\ AudioIdle(TRUE)
    /\ presets \in MenuPresets
    /\ presets_file = presets
    /\ added = <<>>
    /\ MenuIdle

\* One frame of Menu.run with a MOUSEBUTTONDOWN at pos: the view is drawn,
\* then handle_click(pos) goes through btns, tbns and pbns.  The rectangles
\* of one dict do not overlap, so at most one key of each is hit.  A launch
\* is taken up to the loop of start_session.
Click(pos) ==
    /\ pc = "idle"
    /\ LET d    == Drawn(view)
           hitB == Hit(d.btns, pos)
           hitT == Hit(d.tbns, pos) \cap (1..Len(tasks))
           hitP == Hit(d.pbns, pos) \cap DOMAIN presets
           nav  == hitB \cap {"stats", "tasks", "presets", "settings"}
           val  == IF "toggle_music" \in hitB THEN ~config_music
                   ELSE config_music
           au   == IF "toggle_music" \in hitB THEN set_music(audio, val)
                   ELSE audio
           more == IF "add_task" \in hitB THEN Append(tasks, FALSE) ELSE tasks
       IN  /\ "add_task" \in hitB => Len(tasks) < MaxTasks
           /\ btns' = d.btns
           /\ tbns' = d.tbns
           /\ pbns' = d.pbns
           /\ view' = IF nav # {} THEN CHOOSE k \in nav : TRUE
                      ELSE IF "back" \in hitB THEN "main"
                      ELSE view
           /\ tasks' = [tid \in 1..Len(more) |->
                           IF tid \in hitT THEN ~more[tid] ELSE more[tid]]
           /\ did' = [btn |-> hitB, task |-> hitT, preset |-> hitP]
           /\ clickedIn' = view
           /\ IF "start" \in hitB
              THEN BeginSession(<<25, 5, 15>>, 4, FALSE, val, au)
              ELSE IF hitP # {}
              THEN LET p == presets[CHOOSE name \in hitP : TRUE]
                   IN  BeginSession(<<p.work_time, p.break_time, p.long_break>>,
                                    p.sessions, FALSE, val, au)
              ELSE /\ config_music' = val
                   /\ audio' = au
                   /\ UNCHANGED <<pc, runVars, sfx>>
    /\ UNCHANGED <<storeVars, drawVars, presetVars>>

\* start_session returns to Menu.launch or Menu._launch_preset, the music
\* stopped and config['music_enabled'] as the run left it; then
\* self.screen = setup(); self.view = 'main'.
SessionReturns ==
    /\ pc = "while"
    /\ pc' = "idle"
    /\ view' = "main"
    /\ args' = [work_time |-> 0, break_time |-> 0, long_break |-> 0,
                sessions_per_cycle |-> 1, auto_continue |-> FALSE]
    /\ \E music \in BOOLEAN :
          /\ config_music' = music
          /\ audio' = [music_enabled |-> music, mixer |-> "stopped"]
    /\ sfx' = <<>>
    /\ UNCHANGED <<count, active, phase, duration, elapsed, remaining,
                   running, paused, skipped, auto_t, result, log, hist,
                   pausedSecs, remAtPause, resumed>>
    /\ UNCHANGED <<storeVars, drawVars, presetVars>>
    /\ UNCHANGED <<btns, tbns, pbns, tasks, did, clickedIn>>

NextMenu ==
    \/ \E pos \in Spots : Click(pos)
    \/ SessionReturns

SpecMenu == InitMenu /\ [][NextMenu]_vars

Next ==
    \/ \E d \in Durations, n \in 1..MaxSessions, ac \in BOOLEAN :
          StartSession(d, n, ac)
    \/ WhileTop
    \/ \E ev \in Events \cup {"none"}, dt \in {0, 1} : LoopPass(ev, dt)
    \/ AfterLongBreak
    \/ AfterWork
    \/ AfterShortBreak
    \/ SessionEnd

Spec == Init /\ [][Next]_vars

(***************************************************************************)
(* The timer with the music toggle among its inputs, started with music    *)
(* enabled or disabled in the configuration.                               *)
(***************************************************************************)
InitAudio ==
    /\ pc = "idle"
    /\ TimerIdle
    /\ StoreIdle
    /\ DrawIdle
    /\ \E enabled \in BOOLEAN : AudioIdle(enabled)
    /\ PresetIdle
    /\ MenuIdle

NextAudio ==
    \/ \E n \in 1..2 : StartSession(<<1, 1, 1>>, n, FALSE)
    \/ WhileTop
    \/ \E ev \in Events \cup {"music", "none"}, dt \in {0, 1} :
          LoopPass(ev, dt)
    \/ AfterLongBreak
    \/ AfterWork
    \/ AfterShortBreak
    \/ SessionEnd

SpecAudio == InitAudio /\ [][NextAudio]_vars

(***************************************************************************)
(* Vocabulary of the properties.                                           *)
(***************************************************************************)
N == args.sessions_per_cycle

Last(q) == q[Len(q)]

\* The phases begun so far, in order: those that ended, then the one whose
\* loop is running.
Begun ==
    IF pc = "run_phase"
    THEN Append(hist, [phase |-> phase, count |-> count, how |-> "running"])
    ELSE hist

\* The ended phases whose result start_session has finished handling.
Handled == IF pc = "returned" THEN SubSeq(hist, 1, Len(hist) - 1) ELSE hist

IsComplete(h) == h.how = "complete"

IsBreak(h) == h.phase \in {SHORT_BREAK, LONG_BREAK}

MinutesOf(ph) ==
    IF ph = WORK THEN args.work_time
    ELSE IF ph = SHORT_BREAK THEN args.break_time
    ELSE args.long_break

\* The records of a sequence of phases, one per phase.
RecordsOf(q) ==
    [i \in 1..Len(q) |->
        [duration |-> MinutesOf(q[i].phase) * 60,
         type     |-> IF q[i].phase = WORK THEN "work" ELSE "break"]]

\* Positions of q, up to position n, holding phase ph.
Positions(q, n, ph) == {j \in 1..n : q[j].phase = ph}

\* A run in which no phase was skipped or stopped.
Undisturbed(q, n) == \A j \in 1..n : q[j].how = "complete"

\* The user input steps of a run.
InputStep == \E ev \in Events, dt \in {0, 1} : LoopPass(ev, dt)

(***************************************************************************)
(* C1.  For every sessions_per_cycle N >= 1, in a run in which no phase is *)
(* skipped or stopped, the first long break starts only after exactly N    *)
(* Work phases have completed, and count is 0 once that long break has     *)
(* ended.                                                                  *)
(***************************************************************************)
C1_LongBreakAfterNWork ==
    /\ \A i \in 1..Len(Begun) :
          ( /\ Begun[i].phase = LONG_BREAK
            /\ Positions(Begun, i - 1, LONG_BREAK) = {}
            /\ Undisturbed(Begun, i - 1) )
          => Cardinality(Positions(Begun, i - 1, WORK)) = N
    /\ ( /\ pc = "while"
         /\ hist # <<>>
         /\ Last(hist).phase = LONG_BREAK
         /\ Undisturbed(hist, Len(hist)) )
       => count = 0

(***************************************************************************)
(* C2.  In a run (W, B, L, N) in which every phase completes naturally, at *)
(* the moment the record of the first long break is appended the log holds *)
(* exactly N work records of W*60 seconds, N-1 short-break records of B*60 *)
(* seconds and one long-break record of L*60 seconds.                      *)
(***************************************************************************)
C2_LogAtFirstLongBreak ==
    ( /\ pc = "while"
      /\ hist # <<>>
      /\ Last(hist).phase = LONG_BREAK
      /\ Cardinality(Positions(hist, Len(hist), LONG_BREAK)) = 1
      /\ Undisturbed(hist, Len(hist)) )
    => LET works  == {i \in 1..Len(log) : log[i].type = "work"}
           breaks == {i \in 1..Len(log) : log[i].type = "break"}
       IN  /\ Cardinality(works) = N
           /\ \A i \in works : log[i].duration = args.work_time * 60
           /\ Cardinality(breaks) = N
           /\ \A i \in breaks :
                 log[i].duration = IF i = Len(log) THEN args.long_break * 60
                                   ELSE args.break_time * 60

(***************************************************************************)
(* C3.  Skipping a phase never appends a record for it, and the phase that *)
(* follows and the value of count after the skip are those that follow     *)
(* natural completion of the same phase: after a Work phase the short      *)
(* break with the same count; after a break, count + 1 (a long break       *)
(* having reset it to 0) and the long break or Work as count + 1 has       *)
(* reached sessions_per_cycle or not.  The log holds exactly the records   *)
(* of the phases that completed, in order.                                 *)
(***************************************************************************)
AfterCompletion(h) ==
    IF h.phase = WORK
    THEN [phase |-> SHORT_BREAK, count |-> h.count]
    ELSE LET c == IF h.phase = LONG_BREAK THEN 1 ELSE h.count + 1
         IN  [phase |-> IF c >= N THEN LONG_BREAK ELSE WORK, count |-> c]

C4_PauseFreezesCountdown ==
    /\ (pc = "run_phase" /\ resumed)
       => (remaining <= remAtPause /\ remAtPause - remaining <= 1)
    /\ (pc = "returned" /\ Last(hist).how = "complete")
       => LET due == duration * 60 + pausedSecs
          IN  elapsed - due <= 1 /\ due - elapsed <= 1

(***************************************************************************)
(* C5.  Stop (Stop button, ESC, window close) ends the run from any phase, *)
(* paused or not: no record is appended for the phase in progress, no      *)
(* further phase is started, and start_session is left with nothing to do  *)
(* but return.                                                             *)
(***************************************************************************)
C5_StopEndsRun ==
    \A i \in 1..Len(hist) :
       hist[i].how = "stop"
       => /\ i = Len(hist)
          /\ pc = "returned" \/ pc = "done" \/ (pc = "while" /\ ~active)
          /\ Len(log) = Len(SelectSeq(SubSeq(hist, 1, i - 1), IsComplete))

\* start_session has returned after a stop in a short break that followed a
\* completed Work phase.
C5_Witness ==
    /\ pc = "done"
    /\ Len(hist) >= 2
    /\ Last(hist).how = "stop"
    /\ Last(hist).phase = SHORT_BREAK
    /\ hist[Len(hist) - 1].how = "complete"

(***************************************************************************)
(* C6.  With auto_continue false the run suspends after a phase ends and   *)
(* the next phase is started only by an explicit proceed signal of the     *)
(* user: the step that starts the phase after a completed one handles a    *)
(* user input.                                                             *)
(***************************************************************************)
C6_WaitsForProceed ==
    [][ ( /\ ~args.auto_continue
          /\ hist # <<>>
          /\ Last(hist).how = "complete"
          /\ pc # "run_phase"
          /\ pc' = "run_phase" )
        => InputStep ]_vars

(***************************************************************************)
(* C7.  A record is created exactly once per phase that completes without  *)
(* being skipped: in every state the number of records in the log is the   *)
(* number of phases that ended by the countdown reaching zero (not         *)
(* skipped, not stopped) and whose return start_session has handled; none  *)
(* is appended for a phase in progress.                                    *)
(***************************************************************************)
C7_OneRecordPerCompletion ==
    /\ Len(log) = Cardinality({i \in 1..Len(Handled) : IsComplete(Handled[i])})
    /\ pc = "run_phase"
       => Len(log) = Cardinality({i \in 1..Len(hist) : IsComplete(hist[i])})

\* Two phases completed, one was skipped, and a phase is in progress.
C7_Witness ==
    /\ pc = "run_phase"
    /\ elapsed > 0
    /\ Len(log) = 2
    /\ \E i \in 1..Len(hist) : hist[i].how = "skip"

(***************************************************************************)
(* C8.  A run begins in Work with count 1: for every sessions_per_cycle    *)
(* >= 1 the first phase start_session executes is a Work phase, and count  *)
(* is 1 during it.                                                         *)
(***************************************************************************)
C8_BeginsInWork ==
    Len(Begun) >= 1 => (Begun[1].phase = WORK /\ Begun[1].count = 1)

(***************************************************************************)
(* C9.  On natural completion of a short or long break a record of type    *)
(* 'break' is appended and the next phase started is a Work phase: a break *)
(* is never directly followed by another break.                            *)
(***************************************************************************)
C9_BreakThenWork ==
    /\ \A i \in 1..(Len(Begun) - 1) :
          (IsBreak(Begun[i]) /\ IsComplete(Begun[i]))
          => Begun[i + 1].phase = WORK
    /\ Cardinality({i \in 1..Len(log) : log[i].type = "break"})
         = Cardinality({i \in 1..Len(Handled) :
                           IsBreak(Handled[i]) /\ IsComplete(Handled[i])})

(***************************************************************************)
(* C10.  read_all tolerates corrupt lines: for every file it raises no     *)
(* error and returns the parsed records of the well-formed lines, in file  *)
(* order, every malformed line (invalid JSON, JSON that is no record with  *)
(* a 'start' member, a 'start' that does not parse) being skipped.         *)
(***************************************************************************)
WellFormed(line) == line.json = "object" /\ line.start = "timestamp"

C10_ReadAllSkipsMalformed ==
    pc = "read"
    => /\ raised = "none"
       /\ LET good == SelectSeq(file.lines, WellFormed)
          IN  rows = [i \in 1..Len(good) |->
                         [start |-> [day |-> good[i].day, us |-> good[i].us],
                          type |-> good[i].type,
                          duration |-> good[i].duration,
                          task |-> good[i].task]]

\* The dict start_session wrote, as read_all is to return it: its start
\* parsed.
AsRead(data) ==
    [start    |-> [day |-> data.start.day, us |-> data.start.us],
     type     |-> data.type,
     duration |-> data.duration,
     task     |-> data.task]

\* C11: every record the timer writes with DataStore.write, whatever the
\* microsecond of its start, is returned by read_all with the same start,
\* duration, type and task, in the order written, none dropped.
C11_RoundTrip ==
    pc = "read"
    => /\ raised = "none"
       /\ rows = [i \in 1..Len(written) |-> AsRead(written[i])]

\* The countdown max(0, duration * 60 - elapsed) of a phase of `dur` minutes
\* after `secs` seconds.
Countdown(dur, secs) ==
    IF dur * SecPerMin - secs > 0 THEN dur * SecPerMin - secs ELSE 0

C12_Bounded ==
    /\ pc = "run_phase"
       => /\ remaining \in 0..(duration * SecPerMin)
          /\ ~paused => remaining = Countdown(duration, elapsed)
    /\ pc = "returned" => result.remaining \in 0..(duration * SecPerMin)

C12_Step ==
    pc = "run_phase" /\ pc' = "run_phase"
    => /\ remaining' <= remaining
       /\ ~paused' /\ elapsed' > elapsed => remaining' < remaining

\* C12: remaining is an integer in 0..duration*60, also as run_phase returns
\* it; after every pass that ends unpaused it is max(0, duration*60 -
\* elapsed); it never increases, and every pass that ends unpaused after the
\* clock advanced decreases it.
C12_RemainingFromClock == []C12_Bounded /\ [][C12_Step]_vars

\* A phase resumed after a pause, the countdown having jumped to the wall
\* clock's value.
C12_Witness ==
    /\ pc = "run_phase"
    /\ ~paused
    /\ pausedSecs > 0
    /\ remaining > 0
    /\ remaining = duration * SecPerMin - elapsed

C14_OneNotification ==
    [][pc = "returned" /\ IsComplete(Last(hist))
       => Len(sfx') = Len(sfx) + 1]_vars

\* The work records among the dicts in q.
WorkOf(q) == LET IsWork(data) == data.type = "work" IN SelectSeq(q, IsWork)

\* The dicts in q whose start is on date t.
OnDate(q, t) == LET IsOn(data) == data.start.day = t IN SelectSeq(q, IsOn)

\* C15: get_today returns (seconds / 3600, count) over exactly the logged
\* records of type 'work' whose start date is the current date.
C15_TodayOverWorkOfToday ==
    pc = "today"
    => answer = [hours |-> [num |-> SumDuration(OnDate(WorkOf(written), today)),
                            den |-> SecPerHour],
                 count |-> Len(OnDate(WorkOf(written), today))]

\* C16: get_total returns (seconds / 3600, count) over all logged records
\* of type 'work', (0, 0) for an empty or missing log, and leaves the log as
\* it was written.
C16_TotalOverWork ==
    pc = "total"
    => /\ answer = [hours |-> [num |-> SumDuration(WorkOf(written)),
                               den |-> SecPerHour],
                    count |-> Len(WorkOf(written))]
       /\ written = <<>> => answer.hours.num = 0 /\ answer.count = 0
       /\ file.lines = [i \in 1..Len(written) |-> json_dumps(written[i])]

\* The names Presets.add was called with.
AddedNames == {added[i][1] : i \in 1..Len(added)}

\* The four numbers of the last call of Presets.add for `name`.
LastAdded(name) ==
    LET calls == {i \in 1..Len(added) : added[i][1] = name}
        last  == CHOOSE i \in calls : \A j \in calls : j <= i
    IN  added[last][2]

\* The four numbers of a preset.
Numbers(p) == <<p.work_time, p.break_time, p.long_break, p.sessions>>

C17_GetYieldsAdded ==
    /\ DOMAIN presets = AddedNames
    /\ \A name \in AddedNames : Numbers(presets[name]) = LastAdded(name)
    /\ presets_file = presets

C17_LaunchStartsWithAdded ==
    \A name \in PresetNames :
        LaunchPreset(name)
        => /\ <<args'.work_time, args'.break_time, args'.long_break,
                args'.sessions_per_cycle>> = LastAdded(name)
           /\ pc' = "while"

\* C17: after Presets.add(name, ...) get(name) yields the four numbers of
\* the last add under that name, whatever was added under other names
\* before or since, and launching the preset starts the run with them.
C17_PresetRoundTrip ==
    []C17_GetYieldsAdded /\ [][C17_LaunchStartsWithAdded]_vars

\* A preset re-saved with other numbers after another name was added, then
\* launched.
C17_Witness ==
    /\ pc = "while"
    /\ Len(added) = 3
    /\ added[1][1] = added[3][1]
    /\ added[1][2] # added[3][2]
    /\ added[2][1] # added[1][1]
    /\ args.work_time = added[3][2][1]

\* C18: a click acts only on controls of the view drawn when it is
\* handled: it launches a preset only in the presets view and toggles a task
\* only in the main or the tasks view.
C18_ActsOnShownView ==
    /\ did.preset # {} => clickedIn = "presets"
    /\ did.task # {} => clickedIn \in {"main", "tasks"}

\* C19: the music plays only in a Work phase that is not paused, with music
\* enabled; it is stopped when run_phase has returned because of stop or
\* quit, and when start_session has returned.
C19_MusicOnlyInWork ==
    /\ audio.mixer = "playing"
       => /\ pc = "run_phase"
          /\ phase = WORK
          /\ ~paused
          /\ audio.music_enabled
          /\ config_music
    /\ pc = "returned" /\ result.exit_flag => audio.mixer = "stopped"
    /\ pc = "done" => audio.mixer = "stopped"

\* A Work phase begun with music enabled was stopped after some seconds.
C19_Witness ==
    /\ pc = "returned"
    /\ result.exit_flag
    /\ phase = WORK
    /\ elapsed > 0
    /\ config_music
    /\ audio.mixer = "stopped"

====
